---- MODULE Spec2Model ----
(***************************************************************************)
(* Scenario search API: the staleness-gated ingestion pipeline             *)
(* (agents/scenario_data_fetcher.py, orchestrator.py) and the query path   *)
(* (orchestrator.process_query, agents/filter_agent.py) over the           *)
(* `scenarios` table.                                                      *)
(*                                                                         *)
(* Instants are whole seconds; an ISO timestamp string is represented by   *)
(* the instant it denotes.  JSON values are tagged records; a JSON object  *)
(* is the sequence of its <<key, value>> pairs in document order, which is *)
(* the iteration order of the Python dict it parses to.                    *)
(***************************************************************************)
EXTENDS Integers, Sequences, FiniteSets, TLC

(* ----------------------------- JSON values ----------------------------- *)

JNull == [t |-> "null"]
JStr(s) == [t |-> "str", v |-> s]
JInt(n) == [t |-> "int", v |-> n]
JBool(b) == [t |-> "bool", v |-> b]
JList(items) == [t |-> "list", v |-> items]
JDict(pairs) == [t |-> "dict", v |-> pairs]

\* Python truthiness: None, False, 0, "", [] and {} are falsy.
Truthy(x) ==
    CASE x.t = "null" -> FALSE
      [] x.t = "bool" -> x.v
      [] x.t = "int" -> x.v # 0
      [] x.t = "str" -> x.v # ""
      [] OTHER -> Len(x.v) > 0

IsDict(x) == x.t = "dict"
IsList(x) == x.t = "list"

\* `key in d` for a dict d.
HasKey(d, key) == \E i \in 1..Len(d.v) : d.v[i][1] = key

\* d[key] for a dict d holding key.
Item(d, key) == d.v[CHOOSE i \in 1..Len(d.v) : d.v[i][1] = key][2]

\* d.get(key, default)
Get(d, key, default) == IF HasKey(d, key) THEN Item(d, key) ELSE default

\* str(x) for the scalar x.
PyStr(x) ==
    CASE x.t = "str" -> x.v
      [] x.t = "int" -> ToString(x.v)
      [] x.t = "bool" -> IF x.v THEN "True" ELSE "False"
      [] OTHER -> "None"

\* The elements a Python `for` loop over x visits; iterating None, a number
\* or a boolean raises TypeError.  A dict yields its keys, which are strings.
Iterable(x) == x.t \in {"list", "dict", "str"}
Elements(x) ==
    CASE x.t = "list" -> x.v
      [] x.t = "dict" -> [i \in 1..Len(x.v) |-> JStr(x.v[i][1])]
      [] OTHER -> IF x.v = "" THEN <<>> ELSE <<JStr(x.v)>>

(* ------------------- agents/scenario_data_fetcher.py ------------------- *)

\* The outcome of a Python call: a returned value, or an exception raised.
Returned(val) == [raised |-> FALSE, value |-> val]
Raised == [raised |-> TRUE, value |-> <<>>]

\* [str(item.get('runId')) for item in items if item.get('runId') is not None]
RunIdsIn(items) ==
    IF ~Iterable(items) \/ \E i \in 1..Len(Elements(items)) : ~IsDict(Elements(items)[i])
    THEN Raised
    ELSE LET present == SelectSeq(Elements(items), LAMBDA item : Get(item, "runId", JNull).t # "null")
         IN  Returned([i \in 1..Len(present) |-> PyStr(Item(present[i], "runId"))])

extract_run_ids(api_response) ==
    IF ~Truthy(api_response) THEN Returned(<<>>)
    ELSE IF IsDict(api_response) /\ HasKey(api_response, "data")
    THEN RunIdsIn(Item(api_response, "data"))
    ELSE IF IsList(api_response) THEN RunIdsIn(api_response)
    ELSE Returned(<<>>)

\* The runId -> createdTimestamp map, as a function on the run ids it holds;
\* a later listing entry of a run id overwrites an earlier one.
get_run_timestamps(runs_response) ==
    IF ~(IsDict(runs_response) /\ HasKey(runs_response, "data")) THEN Returned(<<>>)
    ELSE LET items == Item(runs_response, "data") IN
         IF ~Iterable(items) \/ \E i \in 1..Len(Elements(items)) : ~IsDict(Elements(items)[i])
         THEN Raised
         ELSE LET stamped == SelectSeq(Elements(items), LAMBDA run_data :
                                 /\ Get(run_data, "runId", JNull).t # "null"
                                 /\ Get(run_data, "createdTimestamp", JNull).t # "null")
                  keys == {PyStr(Item(stamped[i], "runId")) : i \in 1..Len(stamped)}
                  last(k) == CHOOSE i \in 1..Len(stamped) :
                                 /\ PyStr(Item(stamped[i], "runId")) = k
                                 /\ \A j \in (i+1)..Len(stamped) : PyStr(Item(stamped[j], "runId")) # k
              IN  Returned([k \in keys |-> Item(stamped[last(k)], "createdTimestamp").v])

\* The status taken from the last rowRunStatus entry instead of the first.
StatusValueLastRow(scenario) ==
    LET row_status == Get(scenario, "rowRunStatus", JDict(<<>>)) IN
    IF IsDict(row_status) /\ Truthy(row_status)
    THEN IF Truthy(row_status.v[Len(row_status.v)][2]) THEN "Passed" ELSE "Failed"
    ELSE ""

\* The status of one scenario: from the first rowRunStatus entry only.
StatusValue(scenario) ==
    LET row_status == Get(scenario, "rowRunStatus", JDict(<<>>)) IN
    IF IsDict(row_status) /\ Truthy(row_status)
    THEN IF Truthy(row_status.v[1][2]) THEN "Passed" ELSE "Failed"
    ELSE ""

\* The record appended for one scenario of one flow of one process.
ScenarioRecord(run_id, process, flow, scenario, timestamp) ==
    [runId |-> run_id,
     scenarioId |-> PyStr(Get(scenario, "scenarioId", JStr(""))),
     scenarioName |-> PyStr(Get(scenario, "scenarioName", JStr(""))),
     flowId |-> PyStr(Get(flow, "flowId", JStr(""))),
     flowName |-> PyStr(Get(flow, "flowName", JStr(""))),
     processId |-> PyStr(Get(process, "processId", JStr(""))),
     processName |-> PyStr(Get(process, "processName", JStr(""))),
     createdTimestamp |-> timestamp,
     rowRunStatus |-> StatusValue(scenario)]

\* The three nested loops.  acc is [out, exc]: the records appended so far and
\* whether an exception has left the loops (a non-dict element has no .get).
RECURSIVE ScenarioLoop(_, _, _, _, _, _, _)
ScenarioLoop(run_id, process, flow, details, i, timestamp, acc) ==
    IF acc.exc \/ i > Len(details) THEN acc
    ELSE IF ~IsDict(details[i]) THEN [acc EXCEPT !.exc = TRUE]
    ELSE ScenarioLoop(run_id, process, flow, details, i + 1, timestamp,
             [acc EXCEPT !.out = Append(@, ScenarioRecord(run_id, process, flow, details[i], timestamp))])

RECURSIVE FlowLoop(_, _, _, _, _, _)
FlowLoop(run_id, process, flows, j, timestamp, acc) ==
    IF acc.exc \/ j > Len(flows) THEN acc
    ELSE IF ~IsDict(flows[j]) THEN [acc EXCEPT !.exc = TRUE]
    ELSE IF HasKey(flows[j], "scenarioRunDetails") /\ IsList(Item(flows[j], "scenarioRunDetails"))
    THEN FlowLoop(run_id, process, flows, j + 1, timestamp,
             ScenarioLoop(run_id, process, flows[j], Item(flows[j], "scenarioRunDetails").v, 1, timestamp, acc))
    ELSE FlowLoop(run_id, process, flows, j + 1, timestamp, acc)

RECURSIVE ProcessLoop(_, _, _, _, _)
ProcessLoop(run_id, processes, k, timestamp, acc) ==
    IF acc.exc \/ k > Len(processes) THEN acc
    ELSE IF ~IsDict(processes[k]) THEN [acc EXCEPT !.exc = TRUE]
    ELSE IF HasKey(processes[k], "flows") /\ IsList(Item(processes[k], "flows"))
    THEN ProcessLoop(run_id, processes, k + 1, timestamp,
             FlowLoop(run_id, processes[k], Item(processes[k], "flows").v, 1, timestamp, acc))
    ELSE ProcessLoop(run_id, processes, k + 1, timestamp, acc)

\* extract_scenario_details: the records of one run's report.  created_timestamp
\* is <<>> for None.  An exception inside the try block is caught and the
\* records appended before it are returned.
extract_scenario_details(run_id, api_response, created_timestamp, clock) ==
    LET timestamp == IF created_timestamp = <<>> THEN clock ELSE created_timestamp[1]
        data == Item(api_response, "data")
        process_results == Item(data, "processResults")
        run_data == Item(process_results, run_id)
        processes == Item(run_data, "processResults")
    IN  IF ~Truthy(api_response) THEN <<>>
        ELSE IF ~(IsDict(api_response) /\ HasKey(api_response, "data")) THEN <<>>
        ELSE IF ~(IsDict(data) /\ HasKey(data, "processResults")) THEN <<>>
        ELSE IF ~(IsDict(process_results) /\ HasKey(process_results, run_id)) THEN <<>>
        ELSE IF ~(IsDict(run_data) /\ HasKey(run_data, "processResults")) THEN <<>>
        ELSE IF ~Iterable(processes) THEN <<>>
        ELSE ProcessLoop(run_id, Elements(processes), 1, timestamp, [out |-> <<>>, exc |-> FALSE]).out

(* ------------------------- the upstream API ---------------------------- *)

\* Number of scenarios of the large report: one more than a batch holds.
NumBig == 51

Scenario(id, row_status) ==
    JDict(<< <<"scenarioId", id>>, <<"scenarioName", JStr("scenario")>>, <<"rowRunStatus", row_status>> >>)
Flow(id, details) ==
    JDict(<< <<"flowId", JStr(id)>>, <<"flowName", JStr("flow")>>, <<"scenarioRunDetails", details>> >>)
Process(id, flows) ==
    JDict(<< <<"processId", JStr(id)>>, <<"processName", JStr("process")>>, <<"flows", flows>> >>)
\* data.processResults[run_id].processResults = processes
Report(run_id, processes) ==
    JDict(<< <<"data", JDict(<< <<"processResults",
        JDict(<< <<run_id, JDict(<< <<"processResults", processes>> >>)>> >>)>> >>)>> >>)

RowsPassed == JDict(<< <<"0", JBool(TRUE)>> >>)
RowsFailedFirst == JDict(<< <<"0", JBool(FALSE)>>, <<"1", JBool(TRUE)>> >>)

\* Two scenarios in one flow.
ReportSmall(run_id) ==
    Report(run_id, JList(<<Process("p1", JList(<<Flow("f1",
        JList(<<Scenario(JStr("s1"), RowsPassed), Scenario(JStr("s2"), RowsFailedFirst)>>))>>))>>))
\* NumBig scenarios in one flow.
ReportBig(run_id) ==
    Report(run_id, JList(<<Process("p1", JList(<<Flow("f1",
        JList([i \in 1..NumBig |-> Scenario(JInt(i), RowsPassed)]))>>))>>))
\* The same scenarioId under two flows.
ReportTwoFlows(run_id) ==
    Report(run_id, JList(<<Process("p1", JList(<<
        Flow("f1", JList(<<Scenario(JStr("s1"), RowsPassed)>>)),
        Flow("f2", JList(<<Scenario(JStr("s1"), RowsFailedFirst)>>))>>))>>))
\* A payload without processResults.
ReportNoResults == JDict(<< <<"data", JDict(<< <<"status", JStr("ok")>> >>)>> >>)

ListingEntry(run_id, created) == JDict(<< <<"runId", run_id>>, <<"createdTimestamp", created>> >>)
\* {"data": [...]} with runs 1 and "2"
ListingBoth == JDict(<< <<"data", JList(<<ListingEntry(JInt(1), JInt(1000)), ListingEntry(JStr("2"), JInt(2000))>>)>> >>)
\* the bare-list format, run 1 only, without a timestamp
ListingOne == JList(<<JDict(<< <<"runId", JInt(1)>> >>)>>)
\* {"data": null}
ListingNullData == JDict(<< <<"data", JNull>> >>)

\* The upstream snapshots the model draws from: what GET /getruns and
\* GET /reportbyrunid answer when they answer at all.
Snapshots == 1..6
Listing(snap) ==
    CASE snap = 3 -> ListingOne
      [] snap = 5 -> ListingNullData
      [] OTHER -> ListingBoth
ReportOf(snap, run_id) ==
    CASE snap = 1 -> IF run_id = "1" THEN ReportSmall(run_id) ELSE ReportBig(run_id)
      [] snap = 2 -> IF run_id = "1" THEN ReportTwoFlows(run_id) ELSE ReportSmall(run_id)
      [] snap = 3 -> ReportSmall(run_id)
      [] snap = 4 -> IF run_id = "1" THEN ReportNoResults ELSE ReportSmall(run_id)
      [] snap = 5 -> ReportSmall(run_id)
      [] OTHER -> ReportNoResults

(* ------------------------------ the store ------------------------------ *)

\* PRIMARY KEY ("runId", "scenarioId") of the scenarios table.
KeyOf(row) == <<row.runId, row.scenarioId>>
Keys(rows) == {KeyOf(row) : row \in rows}
Range(seq) == {seq[n] : n \in 1..Len(seq)}
RowsOf(rows, run_id) == {row \in rows : row.runId = run_id}

\* A delete that lost its .eq('runId', run_id) filter.
DeleteEveryRun(table, run_id) == {}

\* .delete().eq('runId', run_id)
DeleteRun(table, run_id) == {row \in table : row.runId # run_id}

\* .insert(batch) is one statement: a batch repeating a key, within itself or
\* against the table, is rejected whole.
KeyConflict(table, batch) ==
    \/ \E m, n \in 1..Len(batch) : m # n /\ KeyOf(batch[m]) = KeyOf(batch[n])
    \/ Keys(Range(batch)) \cap Keys(table) # {}
\* An insert that also puts the batch's last_updated_timestamp on every row
\* the table already holds.
InsertRowsStampingAll(table, batch) ==
    {[row EXCEPT !.last_updated_timestamp = batch[1].last_updated_timestamp] : row \in table}
        \cup Range(batch)

InsertRows(table, batch) == table \cup Range(batch)

MaxOf(S) == CHOOSE x \in S : \A y \in S : y <= x

(* ---------------------------- orchestrator.py --------------------------- *)

\* get_last_updated_timestamp: <<t>>, or <<>> for None (an empty table, or a
\* failed read, which is logged and swallowed).
get_last_updated_timestamp(table, read_ok) ==
    IF read_ok /\ table # {}
    THEN <<MaxOf({row.last_updated_timestamp : row \in table})>>
    ELSE <<>>

StaleAfter == 86400

\* The gate with >= for >.
should_run_ingestion_at_24h(last_updated, clock) ==
    IF last_updated = <<>> THEN TRUE
    ELSE clock - last_updated[1] >= StaleAfter

should_run_ingestion(last_updated, clock) ==
    IF last_updated = <<>> THEN TRUE
    ELSE clock - last_updated[1] > StaleAfter

batch_size == 50

\* scenario['last_updated_timestamp'] = current_time
Stamp(scenario, current_time) == scenario @@ [last_updated_timestamp |-> current_time]
Unstamp(row) == [f \in DOMAIN row \ {"last_updated_timestamp"} |-> row[f]]

\* A slice that holds the first record of the batch only.
BatchOfOne(run_scenarios, i) ==
    SubSeq(run_scenarios, i + 1, IF i + 1 < Len(run_scenarios) THEN i + 1 ELSE Len(run_scenarios))

\* [s for s in scenario_data if s['runId'] == run_id]
RunScenarios(scenario_data, run_id) == SelectSeq(scenario_data, LAMBDA s : s.runId = run_id)
\* run_scenarios[i:i+batch_size]
Batch(run_scenarios, i) ==
    SubSeq(run_scenarios, i + 1, IF i + batch_size < Len(run_scenarios) THEN i + batch_size ELSE Len(run_scenarios))

UpdateFailed ==
    [success |-> FALSE,
     message |-> "Failed to update data from source. Please try again later.",
     count |-> 0, results |-> <<>>]

(* ------------------------ agents/filter_agent.py ------------------------ *)

\* The proleptic Gregorian calendar of datetime, on days since 1970-01-01.
IsLeap(y) == (y % 4 = 0 /\ y % 100 # 0) \/ y % 400 = 0
\* calendar.monthrange(y, m)[1]
DaysInMonth(y, m) ==
    IF m = 2 THEN (IF IsLeap(y) THEN 29 ELSE 28)
    ELSE IF m \in {4, 6, 9, 11} THEN 30 ELSE 31
DaysFromCivil(y, m, d) ==
    LET yy == IF m <= 2 THEN y - 1 ELSE y
        era == yy \div 400
        yoe == yy - era * 400
        mp == (m + 9) % 12
        doy == (153 * mp + 2) \div 5 + d - 1
        doe == yoe * 365 + yoe \div 4 - yoe \div 100 + doy
    IN  era * 146097 + doe - 719468
CivilFromDays(z) ==
    LET zz == z + 719468
        era == zz \div 146097
        doe == zz - era * 146097
        yoe == (doe - doe \div 1460 + doe \div 36524 - doe \div 146096) \div 365
        doy == doe - (365 * yoe + yoe \div 4 - yoe \div 100)
        mp == (5 * doy + 2) \div 153
        m == IF mp < 10 THEN mp + 3 ELSE mp - 9
    IN  [year |-> IF m <= 2 THEN yoe + era * 400 + 1 ELSE yoe + era * 400,
         month |-> m,
         day |-> doy - (153 * mp + 2) \div 5 + 1]
Day == 86400
DateOf(instant) == CivilFromDays(instant \div Day)
\* datetime(year, month, day, 0, 0, 0)
Midnight(date) == DaysFromCivil(date.year, date.month, date.day) * Day

\* A query is the sequence of its words, case folded; a number of one or two
\* digits (with or without st/nd/rd/th) is [d |-> n], one of four digits [y |-> n].
W(word) == [w |-> word]
D(n) == [d |-> n]
Y(n) == [y |-> n]

\* No range: (None, None)
NoRange == [start |-> <<>>, end |-> <<>>]
TimeRange(start_time, end_time) == [start |-> <<start_time>>, end |-> <<end_time>>]

_get_today_range(clock) == TimeRange(Midnight(DateOf(clock)), clock)
_get_yesterday_range(clock) ==
    LET yesterday == DateOf(clock - Day)
    IN  TimeRange(Midnight(yesterday), Midnight(yesterday) + (Day - 1))
_get_last_week_range(clock) ==
    LET today_start == Midnight(DateOf(clock))
    IN  TimeRange(today_start - 7 * Day, today_start - 1)
_get_last_month_range(clock) ==
    LET today == DateOf(clock)
        prev_month == IF today.month = 1 THEN 12 ELSE today.month - 1
        prev_year == IF today.month = 1 THEN today.year - 1 ELSE today.year
        last_day == DaysInMonth(prev_year, prev_month)
    IN  TimeRange(DaysFromCivil(prev_year, prev_month, 1) * Day,
                  DaysFromCivil(prev_year, prev_month, last_day) * Day + (Day - 1))
_get_last_24_hours_range(clock) == TimeRange(clock - 24 * 3600, clock)

\* dateutil's month names; 0 for a word it does not know.
MonthNumber(word) ==
    CASE word \in {"january", "jan"} -> 1
      [] word \in {"february", "feb"} -> 2
      [] word \in {"march", "mar"} -> 3
      [] word \in {"april", "apr"} -> 4
      [] word = "may" -> 5
      [] word \in {"june", "jun"} -> 6
      [] word \in {"july", "jul"} -> 7
      [] word \in {"august", "aug"} -> 8
      [] word \in {"september", "sep", "sept"} -> 9
      [] word \in {"october", "oct"} -> 10
      [] word \in {"november", "nov"} -> 11
      [] word \in {"december", "dec"} -> 12
      [] OTHER -> 0

\* One date group of the explicit pattern: a word, a day number, perhaps a year.
IsDateGroup(query, n) ==
    /\ n + 1 <= Len(query)
    /\ "w" \in DOMAIN query[n]
    /\ "d" \in DOMAIN query[n + 1]
HasYear(query, n) == n + 2 <= Len(query) /\ "y" \in DOMAIN query[n + 2]
GroupLen(query, n) == IF HasYear(query, n) THEN 3 ELSE 2

\* parser.parse of one date group: <<date>>, or <<>> when it raises.  A date
\* without a year takes the current year.
ParseDate(query, n, clock) ==
    LET month == MonthNumber(query[n].w)
        day == query[n + 1].d
        year == IF HasYear(query, n) THEN query[n + 2].y ELSE DateOf(clock).year
    IN  IF month = 0 \/ day < 1 \/ day > DaysInMonth(year, month) THEN <<>>
        ELSE <<[year |-> year, month |-> month, day |-> day]>>

\* The leftmost place the explicit pattern matches: from <date> to <date>.
ExplicitAt(query, n) ==
    /\ query[n] = W("from")
    /\ IsDateGroup(query, n + 1)
    /\ n + 1 + GroupLen(query, n + 1) <= Len(query)
    /\ query[n + 1 + GroupLen(query, n + 1)] = W("to")
    /\ IsDateGroup(query, n + 2 + GroupLen(query, n + 1))

_get_explicit_date_range(query, n, clock) ==
    LET start_time == ParseDate(query, n + 1, clock)
        end_time == ParseDate(query, n + 2 + GroupLen(query, n + 1), clock)
    IN  IF start_time = <<>> \/ end_time = <<>> THEN NoRange
        ELSE TimeRange(Midnight(start_time[1]), Midnight(end_time[1]) + (Day - 1))

HasWord(query, word) == \E n \in 1..Len(query) : query[n] = W(word)
HasPhrase(query, first, second) ==
    \E n \in 1..(Len(query) - 1) : query[n] = W(first) /\ query[n + 1] = W(second)

\* The patterns with "last week" moved in front of "today".
_extract_time_filter_last_week_first(query, clock) ==
    IF HasPhrase(query, "last", "week") THEN _get_last_week_range(clock)
    ELSE IF HasWord(query, "today") THEN _get_today_range(clock)
    ELSE IF HasWord(query, "yesterday") THEN _get_yesterday_range(clock)
    ELSE IF HasPhrase(query, "last", "month") THEN _get_last_month_range(clock)
    ELSE IF \E n \in 1..(Len(query) - 2) :
                /\ query[n] = W("last") /\ query[n + 1] = D(24) /\ query[n + 2] = W("hours")
         THEN _get_last_24_hours_range(clock)
    ELSE IF \E n \in 1..Len(query) : ExplicitAt(query, n)
         THEN _get_explicit_date_range(query,
                  CHOOSE n \in 1..Len(query) :
                      ExplicitAt(query, n) /\ \A m \in 1..(n - 1) : ~ExplicitAt(query, m),
                  clock)
    ELSE NoRange

\* The patterns in the order the dict holds them; the first that matches decides.
_extract_time_filter(query, clock) ==
    IF HasWord(query, "today") THEN _get_today_range(clock)
    ELSE IF HasWord(query, "yesterday") THEN _get_yesterday_range(clock)
    ELSE IF HasPhrase(query, "last", "week") THEN _get_last_week_range(clock)
    ELSE IF HasPhrase(query, "last", "month") THEN _get_last_month_range(clock)
    ELSE IF \E n \in 1..(Len(query) - 2) :
                /\ query[n] = W("last") /\ query[n + 1] = D(24) /\ query[n + 2] = W("hours")
         THEN _get_last_24_hours_range(clock)
    ELSE IF \E n \in 1..Len(query) : ExplicitAt(query, n)
         THEN _get_explicit_date_range(query,
                  CHOOSE n \in 1..Len(query) :
                      ExplicitAt(query, n) /\ \A m \in 1..(n - 1) : ~ExplicitAt(query, m),
                  clock)
    ELSE NoRange

\* <<status>>, or <<>> for None
_extract_status_filter(query) ==
    IF HasWord(query, "passed") THEN <<"Passed">>
    ELSE IF HasWord(query, "failed") THEN <<"Failed">>
    ELSE <<>>

_format_results(results) ==
    [n \in 1..Len(results) |->
        [RunID |-> results[n].runId,
         ScenarioID |-> results[n].scenarioId,
         Scenario |-> results[n].scenarioName,
         ProcessID |-> results[n].processId,
         Process |-> results[n].processName,
         FlowID |-> results[n].flowId,
         Flow |-> results[n].flowName,
         Status |-> results[n].rowRunStatus,
         Timestamp |-> results[n].createdTimestamp]]

DefaultLimit == 20

\* The rows in descending createdTimestamp order.  The database leaves the
\* order of rows of equal createdTimestamp open; CHOOSE fixes one such order.
RECURSIVE OrderDesc(_)
OrderDesc(rows) ==
    IF rows = {} THEN <<>>
    ELSE LET first == CHOOSE r \in rows : \A o \in rows : o.createdTimestamp <= r.createdTimestamp
         IN  <<first>> \o OrderDesc(rows \ {first})

\* A query that caps the result at 20 rows whether or not a range was given.
_build_query_always_limited(table, range, status) ==
    LET matching == {row \in table :
                        /\ range.start = <<>> \/ row.createdTimestamp >= range.start[1]
                        /\ range.end = <<>> \/ row.createdTimestamp <= range.end[1]
                        /\ status = <<>> \/ row.rowRunStatus = status[1]}
        ordered == OrderDesc(matching)
    IN  IF Len(ordered) > DefaultLimit THEN SubSeq(ordered, 1, DefaultLimit) ELSE ordered

\* _build_query and its execution against the table.
_build_query(table, range, status) ==
    LET matching == {row \in table :
                        /\ range.start = <<>> \/ row.createdTimestamp >= range.start[1]
                        /\ range.end = <<>> \/ row.createdTimestamp <= range.end[1]
                        /\ status = <<>> \/ row.rowRunStatus = status[1]}
        ordered == OrderDesc(matching)
    IN  IF range.start = <<>> /\ range.end = <<>> /\ Len(ordered) > DefaultLimit
        THEN SubSeq(ordered, 1, DefaultLimit)
        ELSE ordered

\* The time description of the "No scenarios found" message.
TimeDescription(range, clock) ==
    LET start_time == range.start[1]
        end_time == range.end[1]
        \* timedelta.days of (utcnow - start_time): the floor of whole days
        days == IF clock >= start_time THEN (clock - start_time) \div Day
                ELSE -((start_time - clock + Day - 1) \div Day)
    IN  IF DateOf(start_time) = DateOf(clock) THEN "today"
        ELSE IF days = 1 THEN "yesterday"
        ELSE IF days = 7 THEN "for the last week"
        ELSE IF DateOf(start_time).day = 1 /\ DateOf(end_time).day > 28 THEN "for month"
        ELSE IF clock - start_time <= Day THEN "in the last 24 hours"
        ELSE "between"

\* FilterAgent.process_query: the result for the table as read, or the result
\* of the except branch when the read raised.
FilterAgent_process_query(query, table, read_ok, clock) ==
    LET range == _extract_time_filter(query, clock)
        status == _extract_status_filter(query)
        results == _build_query(table, range, status)
    IN  IF ~read_ok
        THEN [success |-> FALSE, message |-> <<"Error processing query">>]
        ELSE IF Len(results) > 0
        THEN [success |-> TRUE, results |-> _format_results(results), count |-> Len(results)]
        ELSE [success |-> FALSE,
              message |-> <<"No scenarios found">> \o status
                          \o (IF range.start # <<>> /\ range.end # <<>>
                              THEN <<TimeDescription(range, clock)>> ELSE <<>>)]

(* --------------------------- the state machine -------------------------- *)

\* Requests the HTTP front end may be serving at once.
Procs == {1, 2}

\* Clock steps, and how many of them a behaviour takes.
MaxTicks == 2
TickSteps == {1, StaleAfter}

\* 2024-01-02 00:00:00 UTC
StartInstant == DaysFromCivil(2024, 1, 2) * Day

Queries ==
    {<<W("show"), W("me"), W("all"), W("failed"), W("scenarios"), W("from"), W("yesterday")>>,
     <<W("show"), W("me"), W("the"), W("most"), W("recent"), W("scenarios")>>}

VARIABLES
    store,      \* the rows of the scenarios table
    now,        \* the current instant
    ticks,      \* clock steps taken
    fr,         \* per request: where process_query is and its locals
    last_pass,  \* the pass that last wrote to the table, if it succeeded
    unit        \* a function called on its own: its arguments and what it returned

vars == <<store, now, ticks, fr, last_pass, unit>>

\* A request at rest.  The fields from gate on record what the call did; the
\* code does not read them.
\*   gate        the answer of should_run_ingestion in process_query
\*   read_failed the table read of the gate check just made raised
\*   listing     the outcome of get_runs
\*   ingest      the return value of ingest_scenarios
\*   inserted    the return value of insert_scenarios
\*   prior       the table when insert_scenarios was entered
\*   removed     the rows the last delete removed
\*   replaced    the run ids whose delete and inserts all succeeded
\*   skipped     the run ids whose report fetch failed
\*   wrote       a delete or an insert changed the table
\*   queried     filter_agent.process_query was called
Idle ==
    [pc |-> "idle", query |-> <<>>, snap |-> 0, run_ids |-> <<>>, timestamp_map |-> <<>>, idx |-> 0,
     scenario_data |-> <<>>, pending |-> {}, run_id |-> "", i |-> 0, result |-> <<>>,
     gate |-> "none", read_failed |-> FALSE, listing |-> "none", ingest |-> "none",
     inserted |-> "none", prior |-> {}, removed |-> {}, replaced |-> {}, skipped |-> {},
     wrote |-> FALSE, queried |-> FALSE]

Init ==
    /\ store = {}
    /\ now = StartInstant
    /\ ticks = 0
    /\ fr = [p \in Procs |-> Idle]
    /\ last_pass = <<>>
    /\ unit = <<>>

\* ingest_scenarios answering True where it has nothing to store.
IngestFailedReturnsTrue(f) ==
    [f EXCEPT !.pc = "query", !.snap = 0, !.read_failed = FALSE, !.ingest = "ok"]
\* process_query going on to the query whatever ingest_scenarios returned.
IngestFailedQueryAnyway(f) ==
    [f EXCEPT !.pc = "query", !.snap = 0, !.read_failed = FALSE, !.ingest = "failed"]

\* ingest_scenarios returned False: process_query answers with the failure result.
IngestFailed(f) ==
    [f EXCEPT !.pc = "done", !.snap = 0, !.read_failed = FALSE, !.ingest = "failed", !.result = UpdateFailed]

\* POST /api/query arrives: process_query(query) starts.  Nothing reads the
\* query before filter_agent.process_query, where the model draws it.
Call(p) ==
    /\ fr[p].pc = "idle"
    /\ fr' = [fr EXCEPT ![p] = [Idle EXCEPT !.pc = "gate"]]
    /\ UNCHANGED <<store, now, ticks, last_pass, unit>>

\* process_query: if should_run_ingestion()
Gate(p, outcomes) ==
    /\ fr[p].pc = "gate"
    /\ \E read_ok \in outcomes :
         LET stale == should_run_ingestion(get_last_updated_timestamp(store, read_ok), now)
         IN  fr' = [fr EXCEPT ![p] = [@ EXCEPT !.pc = IF stale THEN "ingest_gate" ELSE "query",
                                               !.gate = IF stale THEN "stale" ELSE "fresh",
                                               !.read_failed = ~read_ok]]
    /\ UNCHANGED <<store, now, ticks, last_pass, unit>>

\* ingest_scenarios: if not should_run_ingestion(): return False
IngestGate(p, outcomes) ==
    /\ fr[p].pc = "ingest_gate"
    /\ \E read_ok \in outcomes :
         LET stale == should_run_ingestion(get_last_updated_timestamp(store, read_ok), now)
         IN  fr' = [fr EXCEPT ![p] = IF stale THEN [@ EXCEPT !.pc = "get_runs", !.read_failed = ~read_ok]
                                     ELSE IngestFailed(@)]
    /\ UNCHANGED <<store, now, ticks, last_pass, unit>>

\* fetch_all_scenarios up to its loop: get_runs, extract_run_ids, get_run_timestamps.
\* snap is the snapshot the upstream API serves during this pass.
GetRuns(p, served, outcomes) ==
    /\ fr[p].pc = "get_runs"
    /\ \E snap \in served, fetch_ok \in outcomes :
         LET runs_response == IF fetch_ok THEN Listing(snap) ELSE JNull
             run_ids == extract_run_ids(runs_response)
             timestamp_map == get_run_timestamps(runs_response)
             f == [fr[p] EXCEPT !.read_failed = FALSE, !.listing = IF fetch_ok THEN "ok" ELSE "failed"]
         IN  fr' = [fr EXCEPT ![p] =
                 IF ~Truthy(runs_response) THEN IngestFailed(f)
                 ELSE IF run_ids.raised \/ timestamp_map.raised THEN [f EXCEPT !.pc = "raised"]
                 ELSE IF run_ids.value = <<>> THEN IngestFailed(f)
                 ELSE [f EXCEPT !.pc = "get_report", !.snap = snap, !.run_ids = run_ids.value,
                                !.timestamp_map = timestamp_map.value, !.idx = 1]]
    /\ UNCHANGED <<store, now, ticks, last_pass, unit>>

\* Entering insert_scenarios with the collected records: stamp them, group by runId.
EnterInsert(f, all_scenarios) ==
    [f EXCEPT !.pc = "delete", !.snap = 0,
              !.scenario_data = [n \in 1..Len(all_scenarios) |-> Stamp(all_scenarios[n], now)],
              !.pending = {all_scenarios[n].runId : n \in 1..Len(all_scenarios)},
              !.prior = store]

\* One round of the fetch_all_scenarios loop; after the last one ingest_scenarios
\* goes on to insert_scenarios, or returns False when nothing was collected.
GetReport(p, outcomes) ==
    /\ fr[p].pc = "get_report"
    /\ \E fetch_ok \in outcomes :
         LET f == fr[p]
             run_id == f.run_ids[f.idx]
             report_response == IF fetch_ok THEN ReportOf(f.snap, run_id) ELSE JNull
             timestamp == IF run_id \in DOMAIN f.timestamp_map THEN <<f.timestamp_map[run_id]>> ELSE <<>>
             all_scenarios ==
                 IF ~Truthy(report_response) THEN f.scenario_data
                 ELSE f.scenario_data \o extract_scenario_details(run_id, report_response, timestamp, now)
             g == [f EXCEPT !.scenario_data = all_scenarios, !.idx = @ + 1,
                            !.skipped = IF Truthy(report_response) THEN @ ELSE @ \cup {run_id}]
         IN  fr' = [fr EXCEPT ![p] =
                 IF f.idx < Len(f.run_ids) THEN g
                 ELSE IF all_scenarios = <<>> THEN IngestFailed(g)
                 ELSE EnterInsert(g, all_scenarios)]
    /\ UNCHANGED <<store, now, ticks, last_pass, unit>>

\* insert_scenarios returned False from its except branch while on run_id.
InsertFailed(p, run_id) ==
    /\ fr' = [fr EXCEPT ![p] = IngestFailed([@ EXCEPT !.inserted = "failed", !.run_id = run_id])]
    /\ last_pass' = IF fr[p].wrote THEN <<>> ELSE last_pass
    /\ UNCHANGED store

\* insert_scenarios: the delete of the next run id of the set.
Delete(p, outcomes) ==
    /\ fr[p].pc = "delete"
    /\ \E run_id \in fr[p].pending, write_ok \in outcomes :
         IF write_ok
         THEN /\ store' = DeleteRun(store, run_id)
              /\ fr' = [fr EXCEPT ![p] = [@ EXCEPT !.pc = "insert_batch", !.run_id = run_id, !.i = 0,
                                                    !.pending = @ \ {run_id}, !.wrote = TRUE,
                                                    !.removed = RowsOf(store, run_id)]]
              /\ UNCHANGED last_pass
         ELSE InsertFailed(p, run_id)
    /\ UNCHANGED <<now, ticks, unit>>

\* The successful pass as last_pass remembers it; again says that the pass
\* before it wrote the same records and succeeded too.
PassRecord(f, table) ==
    LET data == [n \in 1..Len(f.scenario_data) |-> Unstamp(f.scenario_data[n])]
    IN  [data |-> data, keys |-> Keys(table),
         again |-> last_pass # <<>> /\ last_pass.data = data]

\* insert_scenarios: the insert of the next batch of the run; after the last
\* batch of the last run it returns True and process_query goes on to the query.
InsertBatch(p, outcomes) ==
    /\ fr[p].pc = "insert_batch"
    /\ LET f == fr[p]
           run_scenarios == RunScenarios(f.scenario_data, f.run_id)
           batch == Batch(run_scenarios, f.i)
           run_done == f.i + batch_size >= Len(run_scenarios)
           all_done == run_done /\ f.pending = {}
       IN  \E write_ok \in outcomes :
             IF write_ok /\ ~KeyConflict(store, batch)
             THEN /\ store' = InsertRows(store, batch)
                  /\ fr' = [fr EXCEPT ![p] =
                         [@ EXCEPT !.i = @ + batch_size,
                                   !.replaced = IF run_done THEN @ \cup {f.run_id} ELSE @,
                                   !.pc = IF ~run_done THEN "insert_batch"
                                          ELSE IF ~all_done THEN "delete" ELSE "query",
                                   !.inserted = IF all_done THEN "ok" ELSE @,
                                   !.ingest = IF all_done THEN "ok" ELSE @]]
                  /\ last_pass' = IF all_done THEN PassRecord(f, store') ELSE last_pass
             ELSE InsertFailed(p, f.run_id)
    /\ UNCHANGED <<now, ticks, unit>>

\* process_query: filter_agent.process_query(query), one read of the table.
Query(p, outcomes) ==
    /\ fr[p].pc = "query"
    /\ \E query \in Queries, read_ok \in outcomes :
         fr' = [fr EXCEPT ![p] = [@ EXCEPT !.pc = "done", !.queried = TRUE, !.query = query,
                                           !.read_failed = FALSE,
                                           !.result = FilterAgent_process_query(query, store, read_ok, now)]]
    /\ UNCHANGED <<store, now, ticks, last_pass, unit>>

\* The response is sent (or the exception reaches the front end).
Return(p) ==
    /\ fr[p].pc \in {"done", "raised"}
    /\ fr' = [fr EXCEPT ![p] = Idle]
    /\ UNCHANGED <<store, now, ticks, last_pass, unit>>

Tick ==
    /\ ticks < MaxTicks
    /\ \E d \in TickSteps : now' = now + d
    /\ ticks' = ticks + 1
    /\ UNCHANGED <<store, fr, last_pass, unit>>

\* One step of request p.  served are the snapshots the upstream API may serve;
\* outcomes are the outcomes a store operation or an upstream fetch may have
\* (TRUE: it answers, FALSE: it fails).
Step(p, served, outcomes) ==
    \/ Call(p)
    \/ Gate(p, outcomes)
    \/ IngestGate(p, outcomes)
    \/ GetRuns(p, served, outcomes)
    \/ GetReport(p, outcomes)
    \/ Delete(p, outcomes)
    \/ InsertBatch(p, outcomes)
    \/ Query(p, outcomes)
    \/ Return(p)

\* One request at a time, any snapshot, every operation may fail.
Next == Step(1, Snapshots, BOOLEAN) \/ Tick
Spec == Init /\ [][Next]_vars

\* Two requests served concurrently over one upstream snapshot, no operation
\* failing and no time passing: the interleavings of their store operations.
NextConc == \E p \in Procs : Step(p, {1}, {TRUE})
SpecConc == Init /\ [][NextConc]_vars

\* The table an ingestion of snapshot 1 left two days before the start, with
\* one more row of run 1 that the upstream API has dropped since.
StaleStore ==
    LET written == StartInstant - 2 * Day
        collected == extract_scenario_details("1", ReportOf(1, "1"), <<1000>>, written)
                         \o extract_scenario_details("2", ReportOf(1, "2"), <<2000>>, written)
        dropped == ScenarioRecord("1", JDict(<<>>), JDict(<<>>), Scenario(JStr("s0"), RowsPassed), 1000)
    IN  {Stamp(scenario, written) : scenario \in Range(collected) \cup {dropped}}

InitStale ==
    /\ store \in {{}, StaleStore}
    /\ now = StartInstant
    /\ ticks = 0
    /\ fr = [p \in Procs |-> Idle]
    /\ last_pass = <<>>
    /\ unit = <<>>

\* The two concurrent requests over a table that is empty or stale.
SpecStale == InitStale /\ [][NextConc]_vars

(* ------------------ the filter agent called on its own ------------------ *)

\* The instants a query is asked at: 2024-01-02 00:00:00 and 13:00:00,
\* 2024-03-01 08:00:00 (the month before has 29 days), 2024-04-05 10:00:00.
FilterInstants ==
    {StartInstant,
     StartInstant + 13 * 3600,
     DaysFromCivil(2024, 3, 1) * Day + 8 * 3600,
     DaysFromCivil(2024, 4, 5) * Day + 10 * 3600}

\* A stored row; the query reads runId, scenarioId, rowRunStatus and createdTimestamp.
Row(scenario_id, status, created) ==
    [runId |-> "7", scenarioId |-> scenario_id, scenarioName |-> "scenario",
     flowId |-> "f1", flowName |-> "flow", processId |-> "p1", processName |-> "process",
     createdTimestamp |-> created, rowRunStatus |-> status, last_updated_timestamp |-> created]

StatusOf(n) == IF n % 3 = 0 THEN "Passed" ELSE IF n % 3 = 1 THEN "Failed" ELSE ""

\* One Failed row from yesterday and one Passed row from today.
TableTwoDays(clock) ==
    {Row("y", "Failed", Midnight(DateOf(clock - Day)) + 3600),
     Row("t", "Passed", Midnight(DateOf(clock)))}

\* Rows on the hours of yesterday, and how many: more than the default limit.
NumHourly == 23
\* The hourly rows, one more on the hour that is 20th in descending order, and
\* one in the last second of the day.
TableYesterday(clock) ==
    LET start == Midnight(DateOf(clock - Day))
    IN  {Row(ToString(n), StatusOf(n), start + n * 3600) : n \in 0..(NumHourly - 1)}
        \cup {Row("twin", "Failed", start + (NumHourly + 1 - DefaultLimit) * 3600),
              Row("last", "Passed", start + (Day - 1))}

\* Rows on and just outside the bounds of every range.
TableEdges(clock) ==
    LET today_start == Midnight(DateOf(clock))
        year == DateOf(clock).year
        edges == <<clock, clock + 1, today_start, today_start - 1,
                   clock - 24 * 3600, clock - 24 * 3600 - 1,
                   today_start - 7 * Day, today_start - 7 * Day - 1,
                   _get_last_month_range(clock).start[1], _get_last_month_range(clock).start[1] - 1,
                   _get_last_month_range(clock).end[1], _get_last_month_range(clock).end[1] + 1,
                   DaysFromCivil(year, 4, 1) * Day, DaysFromCivil(year, 4, 1) * Day - 1,
                   DaysFromCivil(year, 4, 10) * Day + (Day - 1), DaysFromCivil(year, 4, 11) * Day>>
    IN  {Row(ToString(n), StatusOf(n), edges[n]) : n \in 1..Len(edges)}

FilterTables(clock) == {{}, TableTwoDays(clock), TableYesterday(clock), TableEdges(clock)}

\* The queries: "show me [passed|failed] scenarios <time phrase> <time phrase>".
StatusWords == {<<>>, <<W("passed")>>, <<W("failed")>>}
TimePhrases ==
    {<<>>,
     <<W("today")>>,
     <<W("from"), W("yesterday")>>,
     <<W("last"), W("week")>>,
     <<W("last"), W("month")>>,
     <<W("last"), D(24), W("hours")>>,
     <<W("from"), W("april"), D(1), W("to"), W("april"), D(10)>>,
     <<W("from"), W("april"), D(10), W("to"), W("april"), D(1)>>,
     <<W("from"), W("dec"), D(30), Y(2023), W("to"), W("jan"), D(2), Y(2024)>>,
     <<W("from"), W("april"), D(31), W("to"), W("may"), D(2)>>,
     <<W("from"), W("sprint"), D(1), W("to"), W("sprint"), D(2)>>}
FilterQueries ==
    {<<W("show"), W("me")>> \o s \o <<W("scenarios")>> \o a \o b :
        s \in StatusWords, a \in TimePhrases, b \in TimePhrases}

InitFilter ==
    /\ now \in FilterInstants
    /\ store \in FilterTables(now)
    /\ ticks = 0
    /\ fr = [p \in Procs |-> Idle]
    /\ last_pass = <<>>
    /\ unit = <<>>

\* FilterAgent().process_query(query): the filters it extracts, the rows the
\* executed query returns (response.data) and the result it builds from them.
AskFilter ==
    /\ unit = <<>>
    /\ \E query \in FilterQueries :
         LET range == _extract_time_filter(query, now)
             status == _extract_status_filter(query)
         IN  unit' = [query |-> query, range |-> range, status |-> status,
                      rows |-> _build_query(store, range, status),
                      result |-> FilterAgent_process_query(query, store, TRUE, now)]
    /\ UNCHANGED <<store, now, ticks, fr, last_pass>>

SpecFilter == InitFilter /\ [][AskFilter]_vars

(* --------------- extract_scenario_details called on its own ------------- *)

\* rowRunStatus values: no row, one row, rows that disagree, values that are
\* not booleans, and the rows out of index order.
RowStatuses ==
    {JDict(<<>>),
     JDict(<< <<"0", JBool(TRUE)>> >>),
     JDict(<< <<"0", JBool(FALSE)>> >>),
     JDict(<< <<"0", JBool(TRUE)>>, <<"1", JBool(FALSE)>> >>),
     JDict(<< <<"0", JBool(FALSE)>>, <<"1", JBool(TRUE)>> >>),
     JDict(<< <<"0", JInt(0)>>, <<"1", JBool(TRUE)>> >>),
     JDict(<< <<"0", JStr("failed")>>, <<"1", JBool(FALSE)>> >>),
     JDict(<< <<"0", JNull>>, <<"1", JBool(TRUE)>> >>),
     JDict(<< <<"1", JBool(FALSE)>>, <<"0", JBool(TRUE)>> >>)}
\* A scenario without the rowRunStatus key.
ScenarioNoStatus(id) == JDict(<< <<"scenarioId", id>>, <<"scenarioName", JStr("scenario")>> >>)
ScenarioShapes(id) == {Scenario(id, row_status) : row_status \in RowStatuses} \cup {ScenarioNoStatus(id)}

\* Reports of one process with one flow of two scenarios.
ReportsOfTwoScenarios(run_id) ==
    {Report(run_id, JList(<<Process("p1", JList(<<Flow("f1", JList(<<a, b>>))>>))>>)) :
        a \in ScenarioShapes(JStr("s1")), b \in ScenarioShapes(JStr("s2"))}

\* The flows a process may hold: well formed, the key missing, the key holding
\* something that is not a list, and a list with an element that is not an object.
GoodFlow(id) == Flow(id, JList(<<Scenario(JStr(id), RowsPassed)>>))
FlowShapes(id) ==
    {GoodFlow(id),
     JDict(<< <<"flowId", JStr(id)>>, <<"flowName", JStr("flow")>> >>),
     Flow(id, JNull),
     Flow(id, JDict(<< <<"0", Scenario(JStr(id), RowsPassed)>> >>)),
     Flow(id, JList(<<JNull, Scenario(JStr(id), RowsPassed)>>)),
     JNull}
\* The processes a report may hold, likewise.
ProcessShapes(id) ==
    {Process(id, JList(<<a, GoodFlow(id \o ".f2")>>)) : a \in FlowShapes(id \o ".f1")}
    \cup {JDict(<< <<"processId", JStr(id)>>, <<"processName", JStr("process")>> >>),
          Process(id, JNull),
          Process(id, GoodFlow(id \o ".f1")),
          JStr(id)}
ReportsOfTwoProcesses(run_id) ==
    {Report(run_id, JList(<<a, b>>)) : a \in ProcessShapes("p1"), b \in ProcessShapes("p2")}

\* Payloads broken above the process list.
ReportsBrokenAbove(run_id) ==
    LET processes == JList(<<Process("p1", JList(<<GoodFlow("p1.f1")>>))>>)
    IN  {JNull,
         JDict(<<>>),
         JList(<<Report(run_id, processes)>>),
         JDict(<< <<"data", JNull>> >>),
         JDict(<< <<"data", JList(<<>>)>> >>),
         ReportNoResults,
         JDict(<< <<"data", JDict(<< <<"processResults", JNull>> >>)>> >>),
         JDict(<< <<"data", JDict(<< <<"processResults", JList(<<JStr(run_id)>>)>> >>)>> >>),
         Report("other", processes),
         JDict(<< <<"data", JDict(<< <<"processResults", JDict(<< <<run_id, JNull>> >>)>> >>)>> >>),
         JDict(<< <<"data", JDict(<< <<"processResults", JDict(<< <<run_id, JDict(<<>>)>> >>)>> >>)>> >>),
         Report(run_id, JNull),
         Report(run_id, JDict(<< <<"p1", Process("p1", JList(<<GoodFlow("p1.f1")>>))>> >>)),
         Report(run_id, JList(<<>>))}

ExtractRunId == "1"
ExtractReports ==
    ReportsOfTwoScenarios(ExtractRunId) \cup ReportsOfTwoProcesses(ExtractRunId)
        \cup ReportsBrokenAbove(ExtractRunId)

\* extract_scenario_details(run_id, api_response, created_timestamp)
Extract ==
    /\ unit = <<>>
    /\ \E api_response \in ExtractReports, created_timestamp \in {<<>>, <<1000>>} :
         unit' = [run_id |-> ExtractRunId, api_response |-> api_response,
                  created_timestamp |-> created_timestamp,
                  scenarios |-> extract_scenario_details(ExtractRunId, api_response, created_timestamp, now)]
    /\ UNCHANGED <<store, now, ticks, fr, last_pass>>

SpecExtract == Init /\ [][Extract]_vars

(* ------------------------------- claims -------------------------------- *)

RunsIn(scenario_data) == {scenario_data[n].runId : n \in 1..Len(scenario_data)}
\* The rows a pass means to write for one run.
NewRows(f, run_id) == Range(RunScenarios(f.scenario_data, run_id))
OneRowPerKey(rows) == \A a, b \in rows : KeyOf(a) = KeyOf(b) => a = b

\* C1: once insert_scenarios has returned, with True or from a failed delete or
\* insert, the table holds for every run id of the pass either exactly the
\* run's new rows or exactly the rows it held when the pass began.
C1_AllOrNothing ==
    \A p \in Procs :
        fr[p].inserted # "none" =>
            \A run_id \in RunsIn(fr[p].scenario_data) :
                \/ RowsOf(store, run_id) = NewRows(fr[p], run_id)
                \/ RowsOf(store, run_id) = RowsOf(fr[p].prior, run_id)

\* C2: a query that reads the table while another request is between the
\* delete and the last insert of a run sees, for that run, all the rows the
\* delete removed or all the run's new rows.
C2_NoHalfDeletedRead ==
    [][\A p, q \in Procs :
          (/\ p # q
           /\ fr[p].pc = "query" /\ fr'[p].pc = "done"
           /\ fr[q].pc = "insert_batch")
          => \/ RowsOf(store, fr[q].run_id) = fr[q].removed
             \/ RowsOf(store, fr[q].run_id) = NewRows(fr[q], fr[q].run_id)]_vars

\* C3: when insert_scenarios fails on one run id, every other run id of the
\* pass has been replaced: deleted and all its batches inserted.
C3_OtherRunsReplaced ==
    \A p \in Procs :
        fr[p].inserted = "failed" =>
            RunsIn(fr[p].scenario_data) \ {fr[p].run_id} \subseteq fr[p].replaced

\* C4: a successful pass that writes the same records as the successful pass
\* before it leaves the table with the same (runId, scenarioId) keys as that
\* pass left, one row per key.
C4_Idempotent ==
    [][\A p \in Procs :
          (/\ fr[p].inserted = "none" /\ fr'[p].inserted = "ok"
           /\ last_pass # <<>>
           /\ last_pass.data = [n \in 1..Len(fr[p].scenario_data) |-> Unstamp(fr[p].scenario_data[n])])
          => /\ Keys(store') = last_pass.keys
             /\ Cardinality(store') = Cardinality(last_pass.keys)]_vars
\* A second successful pass over the same records has completed.
C4_Witness == last_pass # <<>> /\ last_pass.again /\ Len(last_pass.data) > batch_size

\* C5: the records collected for a run hold no scenarioId twice, and the table
\* holds at most one row per (runId, scenarioId).
C5_KeyUnique ==
    /\ \A p \in Procs : \A m, n \in 1..Len(fr[p].scenario_data) :
           KeyOf(fr[p].scenario_data[m]) = KeyOf(fr[p].scenario_data[n]) => m = n
    /\ OneRowPerKey(store)

\* A gate check by p is the step that leaves "gate" or "ingest_gate"; it
\* answered True when the request goes on towards the ingestion.
GateStep(p) == fr[p].pc \in {"gate", "ingest_gate"} /\ fr'[p].pc # fr[p].pc
AnsweredStale(p) ==
    \/ fr[p].pc = "gate" /\ fr'[p].pc = "ingest_gate"
    \/ fr[p].pc = "ingest_gate" /\ fr'[p].pc = "get_runs"
\* No record, or the freshest record is more than 24 hours old.
NoneOrOlderThanADay ==
    \/ store = {}
    \/ now - MaxOf({row.last_updated_timestamp : row \in store}) > 24 * 3600

\* C6 as stated: should_run_ingestion answers True exactly when the table has
\* no record or its freshest last_updated_timestamp is more than 24 hours old.
C6_StalenessGate ==
    [][\A p \in Procs : GateStep(p) => (AnsweredStale(p) <=> NoneOrOlderThanADay)]_vars
\* C6 as amended: ... or when the read of the timestamp failed.
C6_StalenessGateOrUnread ==
    [][\A p \in Procs :
          GateStep(p) => (AnsweredStale(p) <=> (fr'[p].read_failed \/ NoneOrOlderThanADay))]_vars
\* The gate read the table and answered True one second past 24 hours.
C6_Witness ==
    \E p \in Procs :
        /\ fr[p].pc = "ingest_gate" /\ ~fr[p].read_failed
        /\ store # {}
        /\ now - MaxOf({row.last_updated_timestamp : row \in store}) = 24 * 3600 + 1

\* C7: when the run listing cannot be fetched, ingest_scenarios returns False,
\* the request ends with the failure result, and no delete or insert is issued.
C7_ListingFailureAborts ==
    \A p \in Procs :
        fr[p].listing = "failed" =>
            /\ fr[p].pc = "done"
            /\ fr[p].ingest = "failed"
            /\ fr[p].result = UpdateFailed
            /\ fr[p].inserted = "none" /\ ~fr[p].wrote /\ ~fr[p].queried
\* The listing fetch failed over a table that holds rows.
C7_Witness == \E p \in Procs : fr[p].listing = "failed" /\ store # {}

\* C8: when the listing was fetched, some report fetches failed and no store
\* write failed, the pass is not reported as failed and the table holds the
\* records of every run that was collected.
C8_SkippedRunsDoNotFailPass ==
    \A p \in Procs :
        (/\ fr[p].pc \in {"query", "done"}
         /\ fr[p].listing = "ok" /\ fr[p].skipped # {}
         /\ fr[p].inserted # "failed")
        => /\ fr[p].ingest = "ok"
           /\ \A run_id \in RunsIn(fr[p].scenario_data) :
                  RowsOf(store, run_id) = NewRows(fr[p], run_id)

\* C9: a request whose gate was true and whose ingestion failed ends with the
\* failure result without filter_agent.process_query having been called; the
\* query runs only after a false gate or a successful ingestion.
C9_NoQueryAfterFailedIngestion ==
    \A p \in Procs :
        /\ (fr[p].gate = "stale" /\ fr[p].ingest = "failed")
               => (fr[p].pc = "done" /\ fr[p].result = UpdateFailed /\ ~fr[p].queried)
        /\ fr[p].queried => (fr[p].gate = "fresh" \/ fr[p].ingest = "ok")
\* An ingestion failed over a table that holds rows the query could have served.
C9_Witness ==
    \E p \in Procs : fr[p].gate = "stale" /\ fr[p].ingest = "failed" /\ store # {}

\* C10: no call of process_query ends in an exception, and every result it
\* returns carries a boolean success field.
C10_AlwaysStructuredResult ==
    \A p \in Procs :
        /\ fr[p].pc # "raised"
        /\ fr[p].pc = "done" => fr[p].result.success \in BOOLEAN

\* The stored rows inside the bounds that are present and of the status, if one
\* was extracted.
Selected(table, range, status) ==
    {row \in table :
        /\ range.start # <<>> => range.start[1] <= row.createdTimestamp
        /\ range.end # <<>> => row.createdTimestamp <= range.end[1]
        /\ status # <<>> => row.rowRunStatus = status[1]}
Descending(rows) ==
    \A m, n \in 1..Len(rows) : m < n => rows[m].createdTimestamp >= rows[n].createdTimestamp
FailedYesterday ==
    <<W("show"), W("me"), W("failed"), W("scenarios"), W("from"), W("yesterday")>>

\* C11: the rows a query returns are stored rows that satisfy the extracted
\* filters, each once, in descending createdTimestamp order; with a time range
\* they are all such rows, without one they are the first 20 of them (all, if
\* there are fewer); the result carries exactly these rows, formatted; and the
\* "failed ... yesterday" query over one Failed row of yesterday and one
\* Passed row of today returns the Failed row alone.
C11_QueryRows ==
    unit # <<>> =>
        LET selected == Selected(store, unit.range, unit.status)
            rows == unit.rows
            no_range == unit.range.start = <<>> /\ unit.range.end = <<>>
        IN  /\ Range(rows) \subseteq selected
            /\ Cardinality(Range(rows)) = Len(rows)
            /\ Descending(rows)
            /\ ~no_range => Range(rows) = selected
            /\ no_range =>
                   /\ Len(rows) = (IF Cardinality(selected) > 20 THEN 20 ELSE Cardinality(selected))
                   /\ \A left \in selected \ Range(rows) : \A n \in 1..Len(rows) :
                          left.createdTimestamp <= rows[n].createdTimestamp
            /\ IF rows = <<>> THEN ~unit.result.success
               ELSE /\ unit.result.success
                    /\ unit.result.count = Len(rows)
                    /\ unit.result.results = _format_results(rows)
            /\ (unit.query = FailedYesterday /\ store = TableTwoDays(now))
                   => Range(rows) = {row \in store : row.rowRunStatus = "Failed"}
\* The "failed ... yesterday" query was answered over the two-row table.
C11_Witness ==
    /\ unit # <<>>
    /\ unit.query = FailedYesterday /\ store = TableTwoDays(now)
    /\ unit.result.success /\ unit.result.count = 1

\* The time rules in their fixed order, whether a rule's phrase occurs in a
\* query, and the range the rule gives.
RuleOrder == <<"today", "yesterday", "last week", "last month", "last 24 hours", "from to">>
Position(words, query) ==
    {n \in 1..(Len(query) - Len(words) + 1) : SubSeq(query, n, n + Len(words) - 1) = words}
FromToPositions(query) ==
    {n \in 1..Len(query) :
        \E len1, len2 \in {2, 3} :
            /\ n + len1 + len2 + 1 <= Len(query)
            /\ query[n] = W("from") /\ query[n + len1 + 1] = W("to")
            /\ \A g \in {n + 1, n + len1 + 2} :
                   "w" \in DOMAIN query[g] /\ "d" \in DOMAIN query[g + 1]
            /\ len1 = 3 => "y" \in DOMAIN query[n + 3]
            /\ len2 = 3 => "y" \in DOMAIN query[n + len1 + 4]}
Occurs(rule, query) ==
    CASE rule = "today" -> Position(<<W("today")>>, query) # {}
      [] rule = "yesterday" -> Position(<<W("yesterday")>>, query) # {}
      [] rule = "last week" -> Position(<<W("last"), W("week")>>, query) # {}
      [] rule = "last month" -> Position(<<W("last"), W("month")>>, query) # {}
      [] rule = "last 24 hours" -> Position(<<W("last"), D(24), W("hours")>>, query) # {}
      [] OTHER -> FromToPositions(query) # {}
RangeOfRule(rule, query, clock) ==
    CASE rule = "today" -> _get_today_range(clock)
      [] rule = "yesterday" -> _get_yesterday_range(clock)
      [] rule = "last week" -> _get_last_week_range(clock)
      [] rule = "last month" -> _get_last_month_range(clock)
      [] rule = "last 24 hours" -> _get_last_24_hours_range(clock)
      [] OTHER -> _get_explicit_date_range(query,
                      CHOOSE n \in FromToPositions(query) : \A m \in FromToPositions(query) : n <= m,
                      clock)

\* C12: the range extracted from a query is the range of the first rule, in
\* the order today, yesterday, last week, last month, last 24 hours, from-to,
\* whose phrase occurs in the query, and no range when none occurs.
C12_FirstMatchWins ==
    unit # <<>> =>
        LET matching == {n \in 1..Len(RuleOrder) : Occurs(RuleOrder[n], unit.query)}
            first == CHOOSE n \in matching : \A m \in matching : n <= m
        IN  IF matching = {} THEN unit.range = NoRange
            ELSE unit.range = RangeOfRule(RuleOrder[first], unit.query, now)
\* A query that says "last week" and then "today" got the range of today.
C12_Witness ==
    /\ unit # <<>>
    /\ \E m \in Position(<<W("last"), W("week")>>, unit.query) :
           \E n \in Position(<<W("today")>>, unit.query) : m < n
    /\ unit.range = _get_today_range(now)
    /\ unit.range # _get_last_week_range(now)

\* C13: an extracted range is absent, both bounds None, or has both bounds
\* with start <= end.
C13_StartNotAfterEnd ==
    unit # <<>> =>
        \/ unit.range = NoRange
        \/ /\ unit.range.start # <<>> /\ unit.range.end # <<>>
           /\ unit.range.start[1] <= unit.range.end[1]

\* The process list of a report, when every key on the way to it is there and
\* holds an object; <<>> otherwise.
ProcessListOf(api_response, run_id) ==
    IF /\ IsDict(api_response) /\ HasKey(api_response, "data")
       /\ IsDict(Item(api_response, "data")) /\ HasKey(Item(api_response, "data"), "processResults")
       /\ IsDict(Item(Item(api_response, "data"), "processResults"))
       /\ HasKey(Item(Item(api_response, "data"), "processResults"), run_id)
       /\ IsDict(Item(Item(Item(api_response, "data"), "processResults"), run_id))
       /\ HasKey(Item(Item(Item(api_response, "data"), "processResults"), run_id), "processResults")
       /\ IsList(Item(Item(Item(Item(api_response, "data"), "processResults"), run_id), "processResults"))
    THEN Item(Item(Item(Item(api_response, "data"), "processResults"), run_id), "processResults").v
    ELSE <<>>
\* The list under key of the object x; <<>> when x is no object, the key is
\* missing or it holds no list.
ListUnder(x, key) == IF IsDict(x) /\ HasKey(x, key) /\ IsList(Item(x, key)) THEN Item(x, key).v ELSE <<>>
\* The well-formed branches of a report: every scenario object in the
\* scenarioRunDetails list of a flow object in the flows list of a process
\* object, with its place in the three lists.
Branches(api_response, run_id) ==
    LET processes == ProcessListOf(api_response, run_id) IN
    UNION {UNION {{[k |-> k, j |-> j, i |-> i,
                    process |-> processes[k],
                    flow |-> ListUnder(processes[k], "flows")[j],
                    scenario |-> ListUnder(ListUnder(processes[k], "flows")[j], "scenarioRunDetails")[i]] :
                      i \in {i \in 1..Len(ListUnder(ListUnder(processes[k], "flows")[j], "scenarioRunDetails")) :
                                IsDict(ListUnder(ListUnder(processes[k], "flows")[j], "scenarioRunDetails")[i])}} :
                  j \in 1..Len(ListUnder(processes[k], "flows"))} :
           k \in 1..Len(processes)}
\* Every element of the three lists is an object.
AllObjects(api_response, run_id) ==
    LET processes == ProcessListOf(api_response, run_id) IN
    \A k \in 1..Len(processes) :
        /\ IsDict(processes[k])
        /\ \A j \in 1..Len(ListUnder(processes[k], "flows")) :
               LET flow == ListUnder(processes[k], "flows")[j] IN
               /\ IsDict(flow)
               /\ \A i \in 1..Len(ListUnder(flow, "scenarioRunDetails")) :
                      IsDict(ListUnder(flow, "scenarioRunDetails")[i])
\* The records that carry the ids of a branch.
RecordsOf(scenarios, branch) ==
    {n \in 1..Len(scenarios) :
        /\ scenarios[n].processId = PyStr(Get(branch.process, "processId", JStr("")))
        /\ scenarios[n].flowId = PyStr(Get(branch.flow, "flowId", JStr("")))
        /\ scenarios[n].scenarioId = PyStr(Get(branch.scenario, "scenarioId", JStr("")))}
\* Passed or Failed by the first rowRunStatus entry, empty without one.
StatusByFirstRow(scenario) ==
    LET rows == Get(scenario, "rowRunStatus", JDict(<<>>)).v
    IN  IF rows = <<>> THEN "" ELSE IF Truthy(rows[1][2]) THEN "Passed" ELSE "Failed"

\* C14: in a report whose lists hold objects only, every scenario yields one
\* record, and the record's status is Passed when the value of the first
\* rowRunStatus entry is truthy, Failed when it is not, whatever the later
\* entries say, and empty when rowRunStatus has no entry.
C14_StatusFromFirstRow ==
    (unit # <<>> /\ AllObjects(unit.api_response, unit.run_id)) =>
        /\ Len(unit.scenarios) = Cardinality(Branches(unit.api_response, unit.run_id))
        /\ \A branch \in Branches(unit.api_response, unit.run_id) :
               /\ Cardinality(RecordsOf(unit.scenarios, branch)) = 1
               /\ \A n \in RecordsOf(unit.scenarios, branch) :
                      unit.scenarios[n].rowRunStatus = StatusByFirstRow(branch.scenario)
\* Two records came out, one Failed by a first row that later rows contradict,
\* one with empty status for a scenario with no row.
C14_Witness ==
    /\ unit # <<>>
    /\ Len(unit.scenarios) = 2
    /\ \E branch \in Branches(unit.api_response, unit.run_id) :
           /\ Get(branch.scenario, "rowRunStatus", JNull) = RowsFailedFirst
           /\ \A n \in RecordsOf(unit.scenarios, branch) : unit.scenarios[n].rowRunStatus = "Failed"
    /\ \E branch \in Branches(unit.api_response, unit.run_id) :
           /\ Get(branch.scenario, "rowRunStatus", JNull) = JDict(<<>>)
           /\ \A n \in RecordsOf(unit.scenarios, branch) : unit.scenarios[n].rowRunStatus = ""

\* C15: the records of a report are those of its well-formed branches, one
\* each: a key that is missing or holds a value of the wrong type takes away
\* the records below it and no others, and a payload without processResults
\* gives no record.
C15_MalformedBranchOnly ==
    unit # <<>> =>
        /\ \A branch \in Branches(unit.api_response, unit.run_id) :
               Cardinality(RecordsOf(unit.scenarios, branch)) = 1
        /\ Len(unit.scenarios) = Cardinality(Branches(unit.api_response, unit.run_id))
        /\ unit.api_response = ReportNoResults => unit.scenarios = <<>>

\* p's call has been through an ingestion: its gate answered true, it collected
\* records, and it has its result.
IngestedAndDone(p) ==
    fr[p].pc = "done" /\ fr[p].gate = "stale" /\ fr[p].scenario_data # <<>>

\* C16: once two concurrent calls that both found the table stale and both
\* collected the same snapshot have their results, the table holds, for every
\* run they collected, exactly the rows collected for it.
C16_BothDoneStoreComplete ==
    (\A p \in Procs : IngestedAndDone(p)) =>
        \A p \in Procs : \A run_id \in RunsIn(fr[p].scenario_data) :
            {Unstamp(row) : row \in RowsOf(store, run_id)}
                = {Unstamp(row) : row \in NewRows(fr[p], run_id)}
\* Both calls are done over a table that held rows before; the store turned
\* down an insert of one of them after that call had deleted and inserted.
C16_Witness ==
    /\ \A p \in Procs : IngestedAndDone(p) /\ fr[p].prior # {}
    /\ \E p \in Procs : fr[p].inserted = "failed" /\ fr[p].wrote /\ fr[p].i > 0

\* C17: a call ends with the "Failed to update data from source" result only
\* when its run listing could not be fetched or a delete or insert of its
\* pass was turned down.
C17_FailureResultOnlyOnFailure ==
    \A p \in Procs :
        (fr[p].pc = "done" /\ fr[p].result = UpdateFailed)
            => (fr[p].listing = "failed" \/ fr[p].inserted = "failed")

\* The rows of the runs that have no record among the records p has collected.
RowsOfOtherRuns(table, p) == {row \in table : row.runId \notin RunsIn(fr[p].scenario_data)}

\* C18: no step of an ingestion pass changes a stored row whose runId has no
\* record among the records the pass has collected: such rows are neither
\* deleted nor stamped again.
C18_UncollectedRunsUntouched ==
    [][\A p \in Procs :
          (fr'[p] # fr[p] /\ fr[p].pc \in {"get_runs", "get_report", "delete", "insert_batch"})
              => RowsOfOtherRuns(store', p) = RowsOfOtherRuns(store, p)]_vars
\* A pass whose report fetch failed for one run has replaced the other run, and
\* the table still holds the rows an earlier pass wrote for the skipped run.
C18_Witness ==
    \E p \in Procs :
        /\ fr[p].inserted = "ok" /\ fr[p].skipped # {}
        /\ \E row \in store :
               /\ row.runId \in fr[p].skipped
               /\ row.runId \notin RunsIn(fr[p].scenario_data)
               /\ row.last_updated_timestamp < now
        /\ \E row \in store : row.last_updated_timestamp = now

====
